---- MODULE Spec2Model ----
(***************************************************************************)
(* The session orchestration of the journaling page: HomePage (state,      *)
(* handleSessionStart, handleSessionComplete, the event-stream effect, the *)
(* rehydration effect), the useAudioRecorder hook and the SessionTimer     *)
(* component.                                                              *)
(*                                                                         *)
(* One action is one macrotask of the single JavaScript thread: the        *)
(* synchronous run of a handler up to its next await, followed by React's  *)
(* batched re-render and the effects whose dependencies changed.           *)
(*                                                                         *)
(* Three specifications share the actions and differ in the inputs the     *)
(* host supplies: Spec (sessions, capture lifecycle, completion and        *)
(* summaries), SpecLog (the event log) and SpecAudio (chunks and uploads). *)
(***************************************************************************)
EXTENDS Integers, Sequences, FiniteSets, TLC

\* ---------------------------------------------------------------- bounds
MaxClicks == 2          \* Start clicks in one page life
MaxChunks == 2          \* dataavailable events carrying data, over all recorders
MaxEventId == 2         \* server-issued event ids are 1..MaxEventId
MaxClock == 2           \* createdAt strings carry the wall-clock readings 1..MaxClock
DurationTicks == 2      \* SESSION_DURATION_MS counted in animation frames

\* ------------------------------------------------------------ value sets
NoSession == 0                          \* sessionId === null
\* The start call of the c-th click returns session id c; the recorder that
\* call's handler starts is recorder c, and completions are numbered likewise.
SessionIds == 1..MaxClicks
NoRecorder == 0                         \* mediaRecorderRef.current === null
Null == [null |-> TRUE]                 \* a null summary / error / cache slot
Phases == {"idle", "running", "completed"}

\* createdAt is an ISO string: a wall-clock reading and a zone offset. The
\* server stamps even readings in a zone two units ahead, so the order of the
\* strings is not the order of the instants.
CreatedAts == {[clock |-> k, offset |-> 2 * ((k + 1) % 2)] : k \in 1..MaxClock}
EventIds == 1..MaxEventId
\* content stands for the payload; the server writes the session it belongs to.
PromptEvents == [id : EventIds, createdAt : CreatedAts, content : SessionIds]

VARIABLES
  \* HomePage state and refs
  sessionPhase, sessionId, events, localSummary, persistedSummary,
  isCompleting, isFetchingPersisted, error, eventSourceRef, completionGuard,
  \* useAudioRecorder state and refs
  mediaRecorderRef, isRecording, recordingError, chunkSequenceRef,
  \* SessionTimer
  remainingMs, elapsed, animationFrame,
  \* sessionStorage["latestJournalSummary"]
  cache,
  \* the host: pending calls, MediaRecorder and EventSource objects
  starts, recorders, completions, uploads, eventSources, esCleanup,
  \* input budget: chunks delivered so far
  nChunks,
  \* history of what was issued
  finalizeCalls, fetchCalls, completeCalls, chunkLog,
  admission, failedUploads, malformedAt

pageVars == <<sessionPhase, sessionId, events, localSummary, persistedSummary,
              isCompleting, isFetchingPersisted, error, eventSourceRef,
              completionGuard>>
hookVars == <<mediaRecorderRef, isRecording, recordingError, chunkSequenceRef>>
timerVars == <<remainingMs, elapsed, animationFrame>>
hostVars == <<starts, recorders, completions, uploads, eventSources, esCleanup>>
histVars == <<finalizeCalls, fetchCalls, completeCalls, chunkLog, admission,
              failedUploads, malformedAt>>
vars == <<pageVars, hookVars, timerVars, cache, hostVars, nChunks, histVars>>

\* ------------------------------------------------------- pure functions

\* new Date(createdAt).getTime(): the instant of an ISO string with an offset.
DateGetTime(createdAt) == createdAt.clock - createdAt.offset

\* prev.some((event) => event.id === incoming.id)
Exists(prev, incoming) == \E i \in 1..Len(prev) : prev[i].id = incoming.id

\* The comparator of the sort: a.time - b.time.
Compare(a, b) == DateGetTime(a.createdAt) - DateGetTime(b.createdAt)

\* Array.prototype.sort is stable: an element goes after every element that
\* does not compare greater than it.
RECURSIVE InsertSorted(_, _)
InsertSorted(sorted, e) ==
  IF sorted = <<>> THEN <<e>>
  ELSE IF Compare(Head(sorted), e) <= 0
       THEN <<Head(sorted)>> \o InsertSorted(Tail(sorted), e)
       ELSE <<e>> \o sorted

RECURSIVE SortByCreatedAt(_)
SortByCreatedAt(s) ==
  IF s = <<>> THEN <<>>
  ELSE InsertSorted(SortByCreatedAt(SubSeq(s, 1, Len(s) - 1)), s[Len(s)])

\* appendEvent without the exists check: every delivery is inserted.
appendEventNoDedup(prev, incoming) == SortByCreatedAt(Append(prev, incoming))

\* appendEvent without the sort: a new event goes to the end.
appendEventUnsorted(prev, incoming) ==
  IF Exists(prev, incoming) THEN prev ELSE Append(prev, incoming)

\* The updater appendEvent hands to setEvents, lines 198-204.
appendEvent(prev, incoming) ==
  IF Exists(prev, incoming) THEN prev
  ELSE SortByCreatedAt(Append(prev, incoming))

\* The remote service's answers.
FinalizeResult(sid) == [summary |-> sid, tips |-> <<sid>>, generatedAt |-> "finalize"]
PersistedResult(sid) == [summary |-> sid, tips |-> <<sid>>, generatedAt |-> "persisted"]
Summaries == {FinalizeResult(s) : s \in 0..MaxClicks} \cup {PersistedResult(s) : s \in SessionIds}

\* JSON.stringify / JSON.parse of a SessionSummary.
JsonStringify(s) == <<"summary", s.summary, "tips", s.tips, "generatedAt", s.generatedAt>>
JsonParse(str) == [summary |-> str[2], tips |-> str[4], generatedAt |-> str[6]]

\* persistedSummary ?? localSummary
displayedSummary == IF persistedSummary # Null THEN persistedSummary ELSE localSummary

\* ---------------------------------------------------------------- effects

\* The event-stream effect without the close() in its cleanup: the ref is
\* cleared, the EventSource of the previous run stays as it is.
EventStreamEffectNoClose(phase2, sid2, es1) ==
  IF phase2 = sessionPhase /\ sid2 = sessionId
  THEN [es |-> es1, ref |-> eventSourceRef, cleanup |-> esCleanup]
  ELSE LET ref1 == IF esCleanup # NoSession THEN NoSession ELSE eventSourceRef
       IN IF phase2 = "running" /\ sid2 # NoSession
          THEN [es |-> [es1 EXCEPT ![sid2] = "open"], ref |-> sid2, cleanup |-> sid2]
          ELSE [es |-> es1, ref |-> ref1, cleanup |-> NoSession]

\* The event-stream effect, deps [appendEvent, sessionId, sessionPhase]: when a
\* dependency changed, the previous run's cleanup closes its EventSource and
\* clears the ref, then a new EventSource is opened if the phase is running.
\* es1 is the EventSource table as the handler left it.
EventStreamEffect(phase2, sid2, es1) ==
  IF phase2 = sessionPhase /\ sid2 = sessionId
  THEN [es |-> es1, ref |-> eventSourceRef, cleanup |-> esCleanup]
  ELSE LET cleaned == IF esCleanup # NoSession
                      THEN [es1 EXCEPT ![esCleanup] = "closed"] ELSE es1
           ref1 == IF esCleanup # NoSession THEN NoSession ELSE eventSourceRef
       IN IF phase2 = "running" /\ sid2 # NoSession
          THEN [es |-> [cleaned EXCEPT ![sid2] = "open"], ref |-> sid2, cleanup |-> sid2]
          ELSE [es |-> cleaned, ref |-> ref1, cleanup |-> NoSession]

\* The SessionTimer effect, deps [durationMs, isRunning, onExpire]; onExpire is
\* handleSessionComplete, whose identity changes with sessionId. The cleanup
\* cancels the pending frame; a run with isRunning restarts from now.
\* t1 is the timer as the tick left it.
TimerEffect(phase2, sid2, t1) ==
  IF (phase2 = "running") = (sessionPhase = "running") /\ sid2 = sessionId
  THEN t1
  ELSE IF phase2 # "running"
       THEN [remainingMs |-> DurationTicks, elapsed |-> 0, animationFrame |-> FALSE]
       ELSE [remainingMs |-> t1.remainingMs, elapsed |-> 0, animationFrame |-> TRUE]

\* The rehydration effect testing only cached: it adopts the cache over a
\* present local summary.
RehydrationEffectOverwrites(local2, cache2) ==
  IF local2 # localSummary /\ cache2 # Null
  THEN JsonParse(cache2) ELSE local2

\* The rehydration effect, deps [localSummary]: cached && !localSummary.
RehydrationEffect(local2, cache2) ==
  IF local2 # localSummary /\ local2 = Null /\ cache2 # Null
  THEN JsonParse(cache2) ELSE local2

timer == [remainingMs |-> remainingMs, elapsed |-> elapsed, animationFrame |-> animationFrame]

\* The re-render that ends every task: commit the state the handler set and run
\* the effects whose dependencies changed.
Render(phase2, sid2, local2, cache2, es1, t1) ==
  LET e == EventStreamEffect(phase2, sid2, es1)
      t == TimerEffect(phase2, sid2, t1)
  IN /\ sessionPhase' = phase2
     /\ sessionId' = sid2
     /\ cache' = cache2
     /\ localSummary' = RehydrationEffect(local2, cache2)
     /\ eventSources' = e.es
     /\ eventSourceRef' = e.ref
     /\ esCleanup' = e.cleanup
     /\ remainingMs' = t.remainingMs
     /\ elapsed' = t.elapsed
     /\ animationFrame' = t.animationFrame

\* ------------------------------------------------------------------- Init

\* The page after mount. sessionStorage outlives a reload, so the slot is empty
\* or holds the summary a previous page life saved (session 0); the rehydration
\* effect has run once.
Init ==
  /\ sessionPhase = "idle"
  /\ sessionId = NoSession
  /\ events = <<>>
  /\ cache \in {Null, JsonStringify(FinalizeResult(0))}
  /\ localSummary = IF cache # Null THEN JsonParse(cache) ELSE Null
  /\ persistedSummary = Null
  /\ isCompleting = FALSE
  /\ isFetchingPersisted = FALSE
  /\ error = Null
  /\ eventSourceRef = NoSession
  /\ completionGuard = FALSE
  /\ mediaRecorderRef = NoRecorder
  /\ isRecording = FALSE
  /\ recordingError = Null
  /\ chunkSequenceRef = 0
  /\ remainingMs = DurationTicks
  /\ elapsed = 0
  /\ animationFrame = FALSE
  /\ starts = <<>>
  /\ recorders = <<>>
  /\ completions = <<>>
  /\ uploads = {}
  /\ eventSources = [s \in SessionIds |-> "none"]
  /\ esCleanup = NoSession
  /\ nChunks = 0
  /\ finalizeCalls = [s \in SessionIds |-> 0]
  /\ fetchCalls = [s \in SessionIds |-> 0]
  /\ completeCalls = [s \in SessionIds |-> 0]
  /\ chunkLog = {}
  /\ admission = "none"
  /\ failedUploads = {}
  /\ malformedAt = [s \in SessionIds |-> -1]

\* The page mounted in a browser tab whose sessionStorage slot is empty.
InitEmptyCache == Init /\ cache = Null

\* ---------------------------------------------------------------- actions

renderVars == <<sessionPhase, sessionId, cache, localSummary, eventSources,
                eventSourceRef, esCleanup, remainingMs, elapsed, animationFrame>>

\* History: what the latest appendEvent call since the last reset did with its
\* event: discarded it, appended it at the end, or inserted it before an event
\* that arrived earlier.
NoteAdmission(incoming) ==
  LET log == appendEvent(events, incoming)
  IN admission' = IF Exists(events, incoming) THEN "discarded"
                  ELSE IF log[Len(log)] = incoming THEN "appended"
                  ELSE "inserted"

\* resetSessionState, the synchronous head of handleSessionStart, and the
\* startSession() call it issues. The button is disabled only while running.
\* The closure clicked is the one of the last render: its startRecording holds
\* handleAudioChunk with the sessionId of that render.
ClickStart ==
  /\ sessionPhase # "running"
  /\ Len(starts) < MaxClicks
  /\ starts' = Append(starts, [pc |-> "awaitStart", onChunkSid |-> sessionId])
  /\ recorders' = Append(recorders, [state |-> "none", tracksLive |-> FALSE, stopQueued |-> FALSE])
  /\ events' = <<>>
  /\ persistedSummary' = Null
  /\ error' = Null
  /\ isCompleting' = FALSE
  /\ isFetchingPersisted' = FALSE
  /\ completionGuard' = FALSE
  /\ Render(sessionPhase, NoSession, Null, cache, eventSources, timer)
  /\ admission' = "none"
  /\ UNCHANGED <<hookVars, completions, uploads, nChunks, finalizeCalls, fetchCalls,
                 completeCalls, chunkLog, failedUploads, malformedAt>>

\* startSession() resolved: lines 262-267 up to getUserMedia inside
\* startRecording. prompt is response.initialPrompt, Null when absent.
StartOk(c, prompt) ==
  /\ c \in 1..Len(starts)
  /\ starts[c].pc = "awaitStart"
  /\ starts' = [starts EXCEPT ![c].pc = "awaitMic"]
  /\ IF prompt # Null
     THEN events' = appendEvent(events, prompt) /\ NoteAdmission(prompt)
     ELSE UNCHANGED <<events, admission>>
  /\ Render("running", c, localSummary, cache, eventSources, timer)
  /\ UNCHANGED <<persistedSummary, isCompleting, isFetchingPersisted, error, completionGuard,
                 hookVars, recorders, completions, uploads, nChunks, finalizeCalls,
                 fetchCalls, completeCalls, chunkLog, failedUploads, malformedAt>>

\* The catch block without setSessionPhase("idle") and setSessionId(null).
StartFailKeepsSession(c) ==
  /\ c \in 1..Len(starts)
  /\ starts[c].pc = "awaitStart"
  /\ starts' = [starts EXCEPT ![c].pc = "failed"]
  /\ error' = [message |-> "API request failed"]
  /\ UNCHANGED <<renderVars, events, persistedSummary, isCompleting, isFetchingPersisted,
                 completionGuard, hookVars, recorders, completions, uploads, nChunks, histVars>>

\* startSession() rejected: the catch block, lines 268-273.
StartFail(c) ==
  /\ c \in 1..Len(starts)
  /\ starts[c].pc = "awaitStart"
  /\ starts' = [starts EXCEPT ![c].pc = "failed"]
  /\ error' = [message |-> "API request failed"]
  /\ Render("idle", NoSession, localSummary, cache, eventSources, timer)
  /\ UNCHANGED <<events, persistedSummary, isCompleting, isFetchingPersisted, completionGuard,
                 hookVars, recorders, completions, uploads, nChunks, histVars>>

\* getUserMedia resolved: useAudioRecorder.start, lines 25-47; the awaiting
\* handleSessionStart then ends.
MicGrant(c) ==
  /\ c \in 1..Len(starts)
  /\ starts[c].pc = "awaitMic"
  /\ starts' = [starts EXCEPT ![c].pc = "done"]
  /\ recorders' = [recorders EXCEPT ![c] = [state |-> "recording", tracksLive |-> TRUE, stopQueued |-> FALSE]]
  /\ mediaRecorderRef' = c
  /\ chunkSequenceRef' = 0
  /\ isRecording' = TRUE
  /\ recordingError' = Null
  /\ UNCHANGED <<renderVars, events, persistedSummary, isCompleting, isFetchingPersisted,
                 error, completionGuard, completions, uploads, nChunks, histVars>>

\* getUserMedia rejected: the catch of useAudioRecorder.start, lines 48-51. start
\* resolves normally, so handleSessionStart sees no failure.
MicDeny(c) ==
  /\ c \in 1..Len(starts)
  /\ starts[c].pc = "awaitMic"
  /\ starts' = [starts EXCEPT ![c].pc = "done"]
  /\ recordingError' = [message |-> "Permission denied"]
  /\ UNCHANGED <<renderVars, events, persistedSummary, isCompleting, isFetchingPersisted,
                 error, completionGuard, mediaRecorderRef, isRecording, chunkSequenceRef,
                 recorders, completions, uploads, nChunks, histVars>>

\* handleAudioChunk of the closure the recorder r was started with.
handleAudioChunk(r, sequence) ==
  IF starts[r].onChunkSid = NoSession THEN {}
  ELSE {[n |-> nChunks + 1, rec |-> r, sid |-> starts[r].onChunkSid, sequence |-> sequence]}

\* The dataavailable listener for a chunk with data (size > 0), lines 27-36.
DeliverChunk(r) ==
  LET sequence == chunkSequenceRef + 1
      sent == handleAudioChunk(r, sequence)
  IN /\ nChunks < MaxChunks
     /\ nChunks' = nChunks + 1
     /\ chunkSequenceRef' = sequence
     /\ uploads' = uploads \cup sent
     /\ chunkLog' = chunkLog \cup
          {[n |-> nChunks + 1, rec |-> r, sequence |-> sequence,
            running |-> IF sessionPhase = "running" THEN sessionId ELSE NoSession,
            tag |-> IF sent = {} THEN NoSession ELSE starts[r].onChunkSid]}

\* A timeslice elapsed on a recording MediaRecorder.
DataAvailable(r) ==
  /\ r \in 1..Len(recorders)
  /\ recorders[r].state = "recording"
  /\ DeliverChunk(r)
  /\ UNCHANGED <<renderVars, events, persistedSummary, isCompleting, isFetchingPersisted,
                 error, completionGuard, mediaRecorderRef, isRecording, recordingError,
                 starts, recorders, completions, finalizeCalls, fetchCalls, completeCalls,
                 admission, failedUploads, malformedAt>>

\* The task MediaRecorder.stop() queued: a last dataavailable (with data or
\* empty), then the stop listener, lines 38-41.
RecorderStopped(r, withData) ==
  /\ r \in 1..Len(recorders)
  /\ recorders[r].stopQueued
  /\ IF withData
     THEN DeliverChunk(r)
     ELSE UNCHANGED <<nChunks, chunkSequenceRef, uploads, chunkLog>>
  /\ recorders' = [recorders EXCEPT ![r].tracksLive = FALSE, ![r].stopQueued = FALSE]
  /\ isRecording' = FALSE
  /\ UNCHANGED <<renderVars, events, persistedSummary, isCompleting, isFetchingPersisted,
                 error, completionGuard, mediaRecorderRef, recordingError,
                 starts, completions, finalizeCalls, fetchCalls, completeCalls,
                 admission, failedUploads, malformedAt>>

\* uploadAudioChunk settled; a rejection is caught and logged at line 33.
UploadSettled(n) ==
  /\ \E u \in uploads : u.n = n
  /\ uploads' = {u \in uploads : u.n # n}
  /\ UNCHANGED <<pageVars, hookVars, timerVars, cache, starts, recorders, completions,
                 eventSources, esCleanup, nChunks, histVars>>

\* The catch at line 33 answering a rejected upload by sending the chunk again.
UploadFailRetries(n) ==
  /\ \E u \in uploads : u.n = n
  /\ [n |-> n, at |-> nChunks] \notin failedUploads
  /\ failedUploads' = failedUploads \cup {[n |-> n, at |-> nChunks]}
  /\ UNCHANGED <<pageVars, hookVars, timerVars, cache, hostVars, nChunks,
                 finalizeCalls, fetchCalls, completeCalls, chunkLog, admission,
                 malformedAt>>

\* uploadAudioChunk rejected (fetch failed or response not ok, lines 149-156):
\* handleAudioChunk rethrows into the listener's catch, line 33, which logs.
\* failedUploads notes the chunk and how many chunks had been delivered.
UploadFail(n) ==
  /\ \E u \in uploads : u.n = n
  /\ uploads' = {u \in uploads : u.n # n}
  /\ failedUploads' = failedUploads \cup {[n |-> n, at |-> nChunks]}
  /\ UNCHANGED <<pageVars, hookVars, timerVars, cache, starts, recorders, completions,
                 eventSources, esCleanup, nChunks, finalizeCalls, fetchCalls,
                 completeCalls, chunkLog, admission, malformedAt>>

\* useAudioRecorder.stop, lines 54-59: MediaRecorder.stop() makes the recorder
\* inactive at once and queues its last dataavailable and its stop event.
stop ==
  IF mediaRecorderRef # NoRecorder /\ recorders[mediaRecorderRef].state # "inactive"
  THEN [recorders EXCEPT ![mediaRecorderRef].state = "inactive",
                         ![mediaRecorderRef].stopQueued = TRUE]
  ELSE recorders

\* handleSessionComplete up to its first await, lines 276-287, called with the
\* timer left as t1; the closure's sessionId is that of the last render.
handleSessionComplete(t1) ==
  /\ completeCalls' = IF sessionId = NoSession THEN completeCalls
                      ELSE [completeCalls EXCEPT ![sessionId] = @ + 1]
  /\ IF sessionId = NoSession \/ completionGuard
     THEN /\ remainingMs' = t1.remainingMs
          /\ elapsed' = t1.elapsed
          /\ animationFrame' = t1.animationFrame
          /\ UNCHANGED <<sessionPhase, sessionId, cache, localSummary, eventSources,
                         eventSourceRef, esCleanup, completionGuard, isCompleting,
                         recorders, completions, finalizeCalls>>
     ELSE /\ completionGuard' = TRUE
          /\ isCompleting' = TRUE
          /\ recorders' = stop
          /\ completions' = Append(completions, [pc |-> "awaitFinalize", sid |-> sessionId])
          /\ finalizeCalls' = [finalizeCalls EXCEPT ![sessionId] = @ + 1]
          /\ Render("completed", sessionId, localSummary, cache,
                    IF eventSourceRef # NoSession
                    THEN [eventSources EXCEPT ![eventSourceRef] = "closed"]
                    ELSE eventSources,
                    t1)

\* The tick without the return after onExpire(): it requests the next frame.
TickKeepsScheduling(dt) ==
  /\ animationFrame
  /\ LET now == IF elapsed + dt > DurationTicks THEN DurationTicks ELSE elapsed + dt
         nextRemaining == DurationTicks - now
     IN IF nextRemaining = 0
        THEN handleSessionComplete([remainingMs |-> 0, elapsed |-> now, animationFrame |-> TRUE])
        ELSE /\ remainingMs' = nextRemaining
             /\ elapsed' = now
             /\ animationFrame' = TRUE
             /\ UNCHANGED <<sessionPhase, sessionId, cache, localSummary, eventSources,
                            eventSourceRef, esCleanup, completionGuard, isCompleting,
                            recorders, completions, finalizeCalls, completeCalls>>
  /\ UNCHANGED <<events, persistedSummary, isFetchingPersisted, error, hookVars, starts,
                 uploads, nChunks, fetchCalls, chunkLog, admission, failedUploads, malformedAt>>

\* One animation frame of SessionTimer, lines 24-33; dt frames' worth of time
\* passed since the previous one.
Tick(dt) ==
  /\ animationFrame
  /\ LET now == IF elapsed + dt > DurationTicks THEN DurationTicks ELSE elapsed + dt
         nextRemaining == DurationTicks - now
     IN IF nextRemaining = 0
        THEN handleSessionComplete([remainingMs |-> 0, elapsed |-> now, animationFrame |-> FALSE])
        ELSE /\ remainingMs' = nextRemaining
             /\ elapsed' = now
             /\ animationFrame' = TRUE
             /\ UNCHANGED <<sessionPhase, sessionId, cache, localSummary, eventSources,
                            eventSourceRef, esCleanup, completionGuard, isCompleting,
                            recorders, completions, finalizeCalls, completeCalls>>
  /\ UNCHANGED <<events, persistedSummary, isFetchingPersisted, error, hookVars, starts,
                 uploads, nChunks, fetchCalls, chunkLog, admission, failedUploads, malformedAt>>

\* completeSession(sessionId) resolved: lines 288-293 up to the fetch.
FinalizeOk(k) ==
  /\ k \in 1..Len(completions)
  /\ completions[k].pc = "awaitFinalize"
  /\ completions' = [completions EXCEPT ![k].pc = "awaitFetch"]
  /\ isFetchingPersisted' = TRUE
  /\ fetchCalls' = [fetchCalls EXCEPT ![completions[k].sid] = @ + 1]
  /\ Render(sessionPhase, sessionId, FinalizeResult(completions[k].sid),
            JsonStringify(FinalizeResult(completions[k].sid)), eventSources, timer)
  /\ UNCHANGED <<events, persistedSummary, isCompleting, error, completionGuard, hookVars,
                 starts, recorders, uploads, nChunks, finalizeCalls, completeCalls,
                 chunkLog, admission, failedUploads, malformedAt>>

\* The catch block with a setSessionPhase("idle") as in handleSessionStart's.
FinalizeFailRevertsPhase(k) ==
  /\ k \in 1..Len(completions)
  /\ completions[k].pc = "awaitFinalize"
  /\ completions' = [completions EXCEPT ![k].pc = "failed"]
  /\ error' = [message |-> "API request failed"]
  /\ isCompleting' = FALSE
  /\ isFetchingPersisted' = FALSE
  /\ Render("idle", sessionId, localSummary, cache, eventSources, timer)
  /\ UNCHANGED <<events, persistedSummary, completionGuard, hookVars,
                 starts, recorders, uploads, nChunks, histVars>>

\* completeSession(sessionId) rejected: catch and finally, lines 295-301.
FinalizeFail(k) ==
  /\ k \in 1..Len(completions)
  /\ completions[k].pc = "awaitFinalize"
  /\ completions' = [completions EXCEPT ![k].pc = "failed"]
  /\ error' = [message |-> "API request failed"]
  /\ isCompleting' = FALSE
  /\ isFetchingPersisted' = FALSE
  /\ UNCHANGED <<renderVars, events, persistedSummary, completionGuard, hookVars,
                 starts, recorders, uploads, nChunks, histVars>>

\* The fetch continuation also saving the persisted summary to sessionStorage.
FetchOkCachesPersisted(k) ==
  /\ k \in 1..Len(completions)
  /\ completions[k].pc = "awaitFetch"
  /\ completions' = [completions EXCEPT ![k].pc = "done"]
  /\ persistedSummary' = PersistedResult(completions[k].sid)
  /\ isCompleting' = FALSE
  /\ isFetchingPersisted' = FALSE
  /\ Render(sessionPhase, sessionId, localSummary,
            JsonStringify(PersistedResult(completions[k].sid)), eventSources, timer)
  /\ UNCHANGED <<events, error, completionGuard, hookVars,
                 starts, recorders, uploads, nChunks, histVars>>

\* fetchPersistedSummary(sessionId) resolved: line 294 and finally.
FetchOk(k) ==
  /\ k \in 1..Len(completions)
  /\ completions[k].pc = "awaitFetch"
  /\ completions' = [completions EXCEPT ![k].pc = "done"]
  /\ persistedSummary' = PersistedResult(completions[k].sid)
  /\ isCompleting' = FALSE
  /\ isFetchingPersisted' = FALSE
  /\ UNCHANGED <<renderVars, events, error, completionGuard, hookVars,
                 starts, recorders, uploads, nChunks, histVars>>

\* fetchPersistedSummary(sessionId) rejected: the same catch and finally.
FetchFail(k) ==
  /\ k \in 1..Len(completions)
  /\ completions[k].pc = "awaitFetch"
  /\ completions' = [completions EXCEPT ![k].pc = "fetchFailed"]
  /\ error' = [message |-> "API request failed"]
  /\ isCompleting' = FALSE
  /\ isFetchingPersisted' = FALSE
  /\ UNCHANGED <<renderVars, events, persistedSummary, completionGuard, hookVars,
                 starts, recorders, uploads, nChunks, histVars>>

\* eventSource.onmessage with a well-formed payload, lines 227-230. The stream
\* of session s carries the events of session s.
EsMessage(s, incoming) ==
  /\ eventSources[s] = "open"
  /\ incoming.content = s
  /\ events' = appendEvent(events, incoming)
  /\ NoteAdmission(incoming)
  /\ UNCHANGED <<renderVars, persistedSummary, isCompleting, isFetchingPersisted, error,
                 completionGuard, hookVars, starts, recorders, completions, uploads,
                 nChunks, finalizeCalls, fetchCalls, completeCalls, chunkLog,
                 failedUploads, malformedAt>>

\* onmessage whose catch closes the EventSource, as onerror does.
EsMalformedCloses(s) ==
  /\ eventSources[s] = "open"
  /\ malformedAt' = [malformedAt EXCEPT ![s] = Len(events)]
  /\ eventSources' = [eventSources EXCEPT ![s] = "closed"]
  /\ UNCHANGED <<sessionPhase, sessionId, cache, localSummary, eventSourceRef, esCleanup,
                 timerVars, events, persistedSummary, isCompleting, isFetchingPersisted,
                 error, completionGuard, hookVars, starts, recorders, completions,
                 uploads, nChunks, finalizeCalls, fetchCalls, completeCalls, chunkLog,
                 admission, failedUploads>>

\* eventSource.onmessage with a payload JSON.parse rejects, lines 227-234: the
\* catch logs. malformedAt notes how long the log was at the latest drop.
EsMalformed(s) ==
  /\ eventSources[s] = "open"
  /\ malformedAt' = [malformedAt EXCEPT ![s] = Len(events)]
  /\ UNCHANGED <<pageVars, hookVars, timerVars, cache, hostVars, nChunks,
                 finalizeCalls, fetchCalls, completeCalls, chunkLog, admission,
                 failedUploads>>

\* onerror treating the stream failure as a failed session: it closes and
\* puts the page back to idle, as handleSessionStart's catch does.
EsErrorEndsSession(s) ==
  /\ eventSources[s] = "open"
  /\ Render("idle", NoSession, localSummary, cache,
            [eventSources EXCEPT ![s] = "closed"], timer)
  /\ UNCHANGED <<events, persistedSummary, isCompleting, isFetchingPersisted,
                 error, completionGuard, hookVars, starts, recorders, completions,
                 uploads, nChunks, histVars>>

\* eventSource.onerror, lines 236-239.
EsError(s) ==
  /\ eventSources[s] = "open"
  /\ eventSources' = [eventSources EXCEPT ![s] = "closed"]
  /\ UNCHANGED <<sessionPhase, sessionId, cache, localSummary, eventSourceRef, esCleanup,
                 timerVars, events, persistedSummary, isCompleting, isFetchingPersisted,
                 error, completionGuard, hookVars, starts, recorders, completions,
                 uploads, nChunks, histVars>>

\* What every view of the page shares: the Start button, a failed start call
\* and the timer.
Control ==
  \/ ClickStart
  \/ \E c \in SessionIds : StartFail(c)
  \/ \E dt \in 1..DurationTicks : Tick(dt)

\* The capture lifecycle and the completion sequence.
Lifecycle ==
  \/ \E c \in SessionIds : MicGrant(c)
  \/ \E c \in SessionIds : MicDeny(c)
  \/ \E k \in SessionIds : FinalizeOk(k)
  \/ \E k \in SessionIds : FinalizeFail(k)
  \/ \E k \in SessionIds : FetchOk(k)
  \/ \E k \in SessionIds : FetchFail(k)
  \/ \E s \in SessionIds : EsError(s)

\* Orchestration: sessions, capture lifecycle, completion and summaries. The
\* start response carries no initial prompt, the stream is silent and the
\* recorders' chunks are empty.
Next ==
  \/ Control
  \/ Lifecycle
  \/ \E c \in SessionIds : StartOk(c, Null)
  \/ \E r \in SessionIds : RecorderStopped(r, FALSE)

Spec == Init /\ [][Next]_vars

\* The event log: every start response and stream message the server may send.
\* The microphone prompt and the completion calls stay unanswered, and the
\* timer expires on its first frame: what is left out writes neither the log
\* nor what admission reads.
NextLog ==
  \/ ClickStart
  \/ \E c \in SessionIds : StartFail(c)
  \/ Tick(DurationTicks)
  \/ \E c \in SessionIds : StartOk(c, Null)
  \/ \E prompt \in PromptEvents : StartOk(prompt.content, prompt)
  \/ \E s \in SessionIds : \E incoming \in PromptEvents : EsMessage(s, incoming)
  \/ \E s \in SessionIds : EsError(s)

SpecLog == InitEmptyCache /\ [][NextLog]_vars

\* Audio capture: chunks with data and their uploads. The completion calls stay
\* unanswered and the stream is silent: their handlers write nothing the
\* recorder or handleAudioChunk reads.
NextAudio ==
  \/ Control
  \/ \E c \in SessionIds : StartOk(c, Null)
  \/ \E c \in SessionIds : MicGrant(c)
  \/ \E c \in SessionIds : MicDeny(c)
  \/ \E r \in SessionIds : DataAvailable(r)
  \/ \E r \in SessionIds : \E withData \in BOOLEAN : RecorderStopped(r, withData)
  \/ \E n \in 1..MaxChunks : UploadSettled(n)

SpecAudio == InitEmptyCache /\ [][NextAudio]_vars

\* Upload failures: a session completes, the next recorder's chunks are
\* uploaded and each upload succeeds or fails. The timer expires on its first
\* frame and the completion calls stay unanswered.
NextUpload ==
  \/ ClickStart
  \/ Tick(DurationTicks)
  \/ \E c \in SessionIds : StartOk(c, Null)
  \/ \E c \in SessionIds : MicGrant(c)
  \/ \E r \in SessionIds : DataAvailable(r)
  \/ \E n \in 1..MaxChunks : UploadSettled(n)
  \/ \E n \in 1..MaxChunks : UploadFail(n)

SpecUpload == InitEmptyCache /\ [][NextUpload]_vars

\* The messages of a server that stamps the event with id i at clock i.
StreamEvents == {e \in PromptEvents : e.createdAt.clock = e.id}

\* Malformed stream messages among well-formed ones. The start responses
\* carry no prompt and the timer does not expire: sessions change by start
\* calls answered while another session runs.
NextStream ==
  \/ ClickStart
  \/ \E c \in SessionIds : StartOk(c, Null)
  \/ \E s \in SessionIds : \E incoming \in StreamEvents : EsMessage(s, incoming)
  \/ \E s \in SessionIds : EsMalformed(s)

SpecStream == InitEmptyCache /\ [][NextStream]_vars

\* ------------------------------------------------------------- properties

\* Every value stays in its set and no completion goes unnumbered.
TypeOK ==
  /\ sessionPhase \in Phases
  /\ sessionId \in {NoSession} \cup SessionIds
  /\ localSummary \in {Null} \cup Summaries
  /\ persistedSummary \in {Null} \cup Summaries
  /\ mediaRecorderRef \in {NoRecorder} \cup 1..Len(recorders)
  /\ remainingMs \in 0..DurationTicks
  /\ Len(recorders) = Len(starts)
  /\ Len(completions) <= Len(starts)
  /\ eventSourceRef = esCleanup
  /\ failedUploads \subseteq [n : 1..MaxChunks, at : 0..MaxChunks]
  /\ malformedAt \in [SessionIds -> -1..MaxEventId]

\* C1: for every session, however often handleSessionComplete is invoked, the
\* finalize call is issued exactly once and the persisted fetch at most once:
\* never twice, and once as soon as completion was invoked for the session.
C1_FinalizeExactlyOnce ==
  \A s \in SessionIds :
    /\ finalizeCalls[s] <= 1
    /\ fetchCalls[s] <= 1
    /\ completeCalls[s] >= 1 => finalizeCalls[s] = 1

\* C2: every chunk with data delivered while session S is running is uploaded
\* tagged with S.
C2_ChunkTaggedWithRunningSession ==
  \A e \in chunkLog : e.running # NoSession => e.tag = e.running

\* C3: the event log never holds two entries with the same id, and a step in
\* which appendEvent (for the start response's prompt or a stream message)
\* found the incoming id in the log leaves the log unchanged.
C3_IdempotentAdmission ==
  /\ [](\A i, j \in 1..Len(events) : i # j => events[i].id # events[j].id)
  /\ [][admission' = "discarded" => events' = events]_vars

\* C3 witness: a re-delivered id was discarded from a log of two events.
C3_Witness == admission = "discarded" /\ Len(events) >= 2

\* C4: after every admission the event log is sorted ascending by the instant
\* of createdAt.
C4_LogSortedByCreatedAt ==
  \A i, j \in 1..Len(events) :
    i < j => DateGetTime(events[i].createdAt) <= DateGetTime(events[j].createdAt)

\* C4 witness: an event that arrived later stands before one that arrived
\* earlier, its instant being strictly earlier.
C4_Witness ==
  /\ admission = "inserted"
  /\ Len(events) >= 2
  /\ DateGetTime(events[1].createdAt) < DateGetTime(events[Len(events)].createdAt)

\* The sequence numbers recorder r passed to onChunk, in delivery order, are 1, 2, 3, ...
SequenceInOrder(r) ==
  \A e \in chunkLog :
    e.rec = r => e.sequence = Cardinality({f \in chunkLog : f.rec = r /\ f.n <= e.n})

\* C5: for each recording instance the sequence numbers passed to onChunk are
\* exactly 1, 2, 3, ... in delivery order, also when start ran more than once.
C5_SequencePerRecordingInstance == \A r \in 1..Len(recorders) : SequenceInOrder(r)

\* C6: the phase only moves forward: a running session never returns to idle,
\* idle never jumps to completed, and running follows completed only for a
\* session that never ran before.
C6_PhaseMovesForward ==
  [][ /\ sessionPhase = "running" => sessionPhase' # "idle"
      /\ sessionPhase = "idle" => sessionPhase' # "completed"
      /\ (sessionPhase = "completed" /\ sessionPhase' = "running") =>
           (sessionId' # sessionId /\ completeCalls[sessionId'] = 0) ]_vars

\* The start call of attempt c fails in this step.
StartFails(c) == starts[c].pc = "awaitStart" /\ starts'[c].pc = "failed"

\* C7: a failed start call leaves the phase idle, the session identifier
\* cleared and an error set, with no frame scheduled, no subscription open and
\* no microphone request made; the failed attempt never gets a recorder, a
\* subscription or a completion.
C7_FailedStartStaysIdle ==
  /\ [][\A c \in 1..Len(starts) :
          StartFails(c) =>
            /\ sessionPhase' = "idle"
            /\ sessionId' = NoSession
            /\ error' # Null
            /\ ~animationFrame'
            /\ \A s \in SessionIds : eventSources'[s] # "open"
            /\ recorders' = recorders]_vars
  /\ [](\A c \in 1..Len(starts) :
          starts[c].pc = "failed" =>
            /\ recorders[c].state = "none"
            /\ eventSources[c] = "none"
            /\ completeCalls[c] = 0)

\* C7 witness: a start call failed and put the page back to idle while the
\* recorder of another attempt is recording.
C7_Witness ==
  /\ \E c \in 1..Len(starts) : starts[c].pc = "failed"
  /\ \E c \in 1..Len(starts) : recorders[c].state = "recording"
  /\ sessionPhase = "idle"
  /\ error # Null

\* C8: when microphone acquisition failed for the session that was started, the
\* failure is shown, capture is inactive and the session is not running.
C8_MicFailureLeavesRunning ==
  \A c \in 1..Len(starts) :
    (starts[c].pc = "done" /\ recorders[c].state = "none" /\ sessionId = c) =>
      /\ recordingError # Null
      /\ sessionPhase # "running"

\* C9: in the completed phase no recorder is recording and no subscription is
\* open.
C9_CompletedMeansCaptureStopped ==
  sessionPhase = "completed" =>
    /\ \A r \in 1..Len(recorders) : recorders[r].state # "recording"
    /\ \A s \in SessionIds : eventSources[s] # "open"

\* C10: a finalize or fetch result that arrives while a later session is
\* running is stored neither as the local nor as the persisted summary.
C10_LateResultIgnored ==
  [][\A k \in 1..Len(completions) :
       ( /\ sessionPhase = "running"
         /\ sessionId # completions[k].sid
         /\ FinalizeOk(k) \/ FetchOk(k) ) =>
         (localSummary' = localSummary /\ persistedSummary' = persistedSummary)]_vars

\* The persisted fetch of completion k fails in this step.
FetchFails(k) == completions[k].pc = "awaitFetch" /\ completions'[k].pc = "fetchFailed"

\* C11: when the persisted fetch fails after a successful finalize, the local
\* summary stays as it is and is the displayed summary, no error is set and
\* no further fetch is issued.
C11_FetchFailureIsSilent ==
  [][\A k \in 1..Len(completions) :
       FetchFails(k) =>
         /\ localSummary' = localSummary
         /\ displayedSummary' = localSummary'
         /\ error' = error
         /\ fetchCalls' = fetchCalls]_vars

\* The finalize call of completion k fails in this step.
FinalizeFails(k) == completions[k].pc = "awaitFinalize" /\ completions'[k].pc = "failed"

\* C12: a failed finalize call sets an error and leaves the phase as it is,
\* completed while the session is still the current one; it writes nothing to
\* the cache and issues no fetch, and no fetch is ever issued for a session
\* whose finalize call failed.
C12_FinalizeFailureSurfaced ==
  /\ [][\A k \in 1..Len(completions) :
          FinalizeFails(k) =>
            /\ error' # Null
            /\ sessionPhase' = sessionPhase
            /\ sessionId = completions[k].sid => sessionPhase' = "completed"
            /\ cache' = cache
            /\ fetchCalls' = fetchCalls]_vars
  /\ [](\A k \in 1..Len(completions) :
          completions[k].pc = "failed" => fetchCalls[completions[k].sid] = 0)

\* C12 witness: the finalize call of the current session failed: the page is
\* completed with an error, an empty cache and no fetch issued.
C12_Witness ==
  \E k \in 1..Len(completions) :
    /\ completions[k].pc = "failed"
    /\ sessionId = completions[k].sid
    /\ sessionPhase = "completed"
    /\ error # Null
    /\ cache = Null
    /\ fetchCalls[completions[k].sid] = 0

\* The finalize call of session s has succeeded.
FinalizeSucceeded(s) ==
  \E k \in 1..Len(completions) :
    completions[k].sid = s /\ completions[k].pc \in {"awaitFetch", "done", "fetchFailed"}

\* C13: while the current session's own finalize call has not succeeded (it is
\* running, completing, or its finalize failed), no summary is displayed:
\* local and persisted summary are both absent.
C13_NoSummaryBeforeOwnFinalize ==
  (sessionId # NoSession /\ ~FinalizeSucceeded(sessionId)) =>
    (localSummary = Null /\ persistedSummary = Null)

\* The timer is armed once per running session (the effect re-runs when
\* isRunning or onExpire, that is sessionId, changes), and onExpire is the
\* handleSessionComplete of that session: completeCalls[s] counts the onExpire
\* invocations of the arming for session s.
OnExpireInvoked(s) == completeCalls'[s] > completeCalls[s]

\* C14: onExpire is invoked at most once per arming, only by a frame of the
\* arming in force whose elapsed time reaches the duration, and that frame
\* schedules no other; an arming that was replaced or disarmed before
\* reaching zero never invokes it; an armed timer whose elapsed time has
\* reached the duration has invoked it.
C14_TimerExpiresOnce ==
  /\ [][\A s \in SessionIds :
          OnExpireInvoked(s) =>
            /\ completeCalls[s] = 0
            /\ sessionPhase = "running" /\ sessionId = s
            /\ animationFrame
            /\ \E dt \in 1..DurationTicks : Tick(dt) /\ elapsed + dt >= DurationTicks
            /\ ~animationFrame']_vars
  /\ [][\A dt \in 1..DurationTicks :
          (Tick(dt) /\ elapsed + dt >= DurationTicks) => OnExpireInvoked(sessionId)]_vars
  /\ []((sessionPhase = "running" /\ elapsed = DurationTicks) =>
          (completeCalls[sessionId] = 1 /\ ~animationFrame))

\* C14 witness: one arming was replaced before zero and never invoked
\* onExpire; the arming that replaced it reached zero and invoked it once,
\* and no frame is pending.
C14_Witness ==
  \E s, t \in 1..Len(starts) :
    /\ starts[t].pc \in {"awaitMic", "done"}
    /\ sessionId = s /\ s # t
    /\ completeCalls[t] = 0
    /\ completeCalls[s] = 1
    /\ ~animationFrame

\* What sessionStorage may hold under the key latestJournalSummary, when set.
Caches == {JsonStringify(s) : s \in Summaries}

\* C15: the rehydration effect returns every present local summary as it is,
\* whatever the cache holds. In the running page: the summary finalize stores
\* is the local summary after the step; a present local summary changes only
\* when Start clears it or finalize stores one; the cache is adopted only in
\* the step in which Start cleared the local summary, and that step sets no
\* persisted summary and issues no finalize or fetch call.
C15_RehydrationOnlyWhenAbsent ==
  /\ [](\A local2 \in Summaries :
          /\ RehydrationEffect(local2, Null) = local2
          /\ \A cache2 \in Caches : RehydrationEffect(local2, cache2) = local2)
  /\ [][\A k \in 1..Len(completions) :
          FinalizeOk(k) => localSummary' = FinalizeResult(completions[k].sid)]_vars
  /\ [][(localSummary # Null /\ localSummary' # localSummary) =>
          (ClickStart \/ \E k \in 1..Len(completions) : FinalizeOk(k))]_vars
  /\ [][ClickStart =>
          /\ localSummary' = IF cache = Null THEN Null ELSE JsonParse(cache)
          /\ persistedSummary' = Null
          /\ finalizeCalls' = finalizeCalls
          /\ fetchCalls' = fetchCalls
          /\ completions' = completions]_vars

\* C15 witness: Start cleared the summaries of a session finalized in this
\* page life and the effect adopted the cached copy; nothing is persisted.
C15_Witness ==
  /\ \E c \in 1..Len(starts) : starts[c].pc = "awaitStart"
  /\ sessionId = NoSession
  /\ cache # Null
  /\ localSummary = JsonParse(cache)
  /\ localSummary.summary # 0
  /\ persistedSummary = Null

\* C16: for the completion of the current session, the step in which finalize
\* succeeds makes the finalize result the displayed summary with no persisted
\* summary set yet, and the step in which the fetch succeeds finds that local
\* summary displayed and makes the persisted summary the displayed one.
\* (That the displayed summary is the persisted one when present and the local
\* one otherwise is the definition at lines 304-306.)
C16_LocalShownThenPersisted ==
  [][\A k \in 1..Len(completions) :
       sessionId = completions[k].sid =>
         /\ FinalizeOk(k) =>
              /\ persistedSummary' = Null
              /\ displayedSummary' = FinalizeResult(completions[k].sid)
         /\ FetchOk(k) =>
              /\ displayedSummary = FinalizeResult(completions[k].sid)
              /\ displayedSummary' = PersistedResult(completions[k].sid)]_vars

\* C17: an EventSource is open only while the phase is running and only for
\* the current session identifier, so at most one is open; a step that opens
\* one leaves no other open.
C17_OneSubscriptionForCurrentSession ==
  /\ [](\A s \in SessionIds :
          eventSources[s] = "open" => (sessionPhase = "running" /\ sessionId = s))
  /\ [](Cardinality({s \in SessionIds : eventSources[s] = "open"}) <= 1)
  /\ [][\A s \in SessionIds :
          (eventSources[s] # "open" /\ eventSources'[s] = "open") =>
            \A t \in SessionIds \ {s} : eventSources'[t] # "open"]_vars

\* C17 witness: the subscription of a session that never completed was
\* closed and the one of the session now running is open.
C17_Witness ==
  \E s, t \in SessionIds :
    /\ s # t
    /\ sessionPhase = "running" /\ sessionId = s
    /\ eventSources[s] = "open"
    /\ eventSources[t] = "closed"
    /\ completeCalls[t] = 0

\* stop() is called in this step: handleSessionComplete got past its guard.
StopCalled == Len(completions') > Len(completions)

\* Some recorder is capturing.
Capturing == \E r \in 1..Len(recorders) : recorders[r].state = "recording"

\* C18: stop() called when no recorder was started or the held one is inactive
\* changes no recorder; called while capturing it leaves no recorder
\* recording and every live track with its release queued.
C18_StopIdempotent ==
  [][StopCalled =>
       /\ (mediaRecorderRef = NoRecorder \/ ~Capturing) => recorders' = recorders
       /\ Capturing =>
            \A r \in 1..Len(recorders) :
              /\ recorders'[r].state # "recording"
              /\ recorders'[r].tracksLive => recorders'[r].stopQueued]_vars

\* The upload of chunk n fails in this step.
UploadFails(n) == \E a \in 0..MaxChunks : [n |-> n, at |-> a] \in failedUploads' \ failedUploads

\* C19: a failed upload changes nothing but the set of requests in flight: the
\* recorders, the sequence counter, the phase and both error states stay and
\* no request is issued; the chunk delivered next, the counter not having been
\* reset by a start, carries the failed chunk's sequence number plus one; a
\* chunk whose upload failed is never in flight again.
C19_UploadFailureDoesNotStopCapture ==
  /\ [][\A n \in 1..MaxChunks :
          UploadFails(n) =>
            /\ uploads' = {u \in uploads : u.n # n}
            /\ recorders' = recorders
            /\ isRecording' = isRecording
            /\ chunkSequenceRef' = chunkSequenceRef
            /\ sessionPhase' = sessionPhase
            /\ error' = error
            /\ recordingError' = recordingError]_vars
  /\ [][\A e \in chunkLog : \A f \in chunkLog' \ chunkLog :
          ( /\ [n |-> e.n, at |-> e.n] \in failedUploads
            /\ e.n = nChunks
            /\ e.sequence = chunkSequenceRef ) => f.sequence = e.sequence + 1]_vars
  /\ [](\A u \in uploads : \A a \in 0..MaxChunks : [n |-> u.n, at |-> a] \notin failedUploads)

\* C19 witness: the upload of a chunk failed before the next chunk was due,
\* and the same recorder, still recording, delivered the next chunk with the
\* next sequence number and its upload is in flight; no error is set.
C19_Witness ==
  \E e, f \in chunkLog :
    /\ [n |-> e.n, at |-> e.n] \in failedUploads
    /\ f.n = e.n + 1
    /\ f.rec = e.rec
    /\ f.sequence = e.sequence + 1
    /\ \E u \in uploads : u.n = f.n
    /\ recorders[f.rec].state = "recording"
    /\ error = Null
    /\ recordingError = Null

\* A malformed message is dropped on the stream of session s in this step.
MalformedDropped(s) == malformedAt'[s] # malformedAt[s]

\* C20: the step that drops a malformed message leaves the event log, the
\* phase, the error and every EventSource as they are, and on a stream that
\* is open after a drop every well-formed message can still be delivered.
C20_MalformedMessageDropped ==
  /\ [][\A s \in SessionIds :
          MalformedDropped(s) =>
            /\ events' = events
            /\ sessionPhase' = sessionPhase
            /\ error' = error
            /\ eventSources' = eventSources
            /\ eventSources'[s] = "open"]_vars
  /\ [](\A s \in SessionIds :
          (malformedAt[s] # -1 /\ eventSources[s] = "open") =>
            \A incoming \in PromptEvents :
              incoming.content = s => ENABLED EsMessage(s, incoming))

\* C20 witness: on a stream still open, an event was admitted to the log after
\* a malformed message had been dropped.
C20_Witness ==
  \E s \in SessionIds :
    /\ eventSources[s] = "open"
    /\ malformedAt[s] # -1
    /\ malformedAt[s] < Len(events)
    /\ admission \in {"appended", "inserted"}

\* The stream of the running current session s is closed: only onerror closes
\* it while the phase and the identifier stay.
ErrorClosed(s) == sessionPhase = "running" /\ sessionId = s /\ eventSources[s] = "closed"

\* C21: onerror closes the EventSource and leaves the phase, the session
\* identifier and the log as they are; a closed EventSource is never open
\* again; while the session whose stream failed keeps running the log does
\* not change.
C21_StreamErrorNoReconnect ==
  /\ [][\A s \in SessionIds :
          EsError(s) =>
            /\ eventSources'[s] = "closed"
            /\ sessionPhase' = sessionPhase
            /\ sessionId' = sessionId
            /\ events' = events]_vars
  /\ [][\A s \in SessionIds :
          eventSources[s] = "closed" => eventSources'[s] = "closed"]_vars
  /\ [][\A s \in SessionIds :
          (ErrorClosed(s) /\ sessionPhase' = "running" /\ sessionId' = s) =>
            events' = events]_vars

\* C21 witness: the stream of the running session failed; the session is
\* still running, its timer armed, and the log holds an event of the session.
C21_Witness ==
  \E s \in SessionIds :
    /\ ErrorClosed(s)
    /\ animationFrame
    /\ \E i \in 1..Len(events) : events[i].content = s

\* The running session is left in this step: the phase or the identifier changes.
LeavesRunning ==
  sessionPhase = "running" /\ (sessionPhase' # "running" \/ sessionId' # sessionId)

\* C22, as what a run must keep for every session that entered running to be
\* completed by the timer alone: while a session is running a frame of its
\* timer is pending, and a running session is left only by its own
\* completion, with its finalize call issued.
C22_EveryRunningSessionCompletes ==
  /\ [](sessionPhase = "running" => animationFrame)
  /\ [][LeavesRunning =>
          /\ sessionPhase' = "completed"
          /\ sessionId' = sessionId
          /\ finalizeCalls'[sessionId] = 1]_vars

\* C23: while a session is running every event in the log belongs to it: its
\* initial prompt or a message of its own stream.
C23_LogHoldsCurrentSessionOnly ==
  sessionPhase = "running" =>
    \A i \in 1..Len(events) : events[i].content = sessionId

\* C24: the cache slot changes only in the step in which a finalize call
\* succeeds, every such step stores that call's result, and parsing the slot
\* gives the result back; Start's reset with the rehydration that follows,
\* the fetch results and the failures leave the slot as it is.
C24_CacheWrittenOnlyByFinalize ==
  /\ [][cache' # cache =>
          \E k \in 1..Len(completions) :
            /\ FinalizeOk(k)
            /\ cache' = JsonStringify(FinalizeResult(completions[k].sid))]_vars
  /\ [][\A k \in 1..Len(completions) :
          FinalizeOk(k) =>
            /\ cache' = JsonStringify(FinalizeResult(completions[k].sid))
            /\ JsonParse(cache') = FinalizeResult(completions[k].sid)]_vars
  /\ [][( \/ ClickStart
          \/ \E k \in 1..Len(completions) : FinalizeFail(k) \/ FetchOk(k) \/ FetchFail(k)
          \/ \E c \in 1..Len(starts) : StartFail(c) ) => cache' = cache]_vars

\* C24 witness: a session was finalized and its persisted summary fetched,
\* Start was clicked again, and the slot still holds that finalize result.
C24_Witness ==
  \E k \in 1..Len(completions) :
    /\ completions[k].pc = "done"
    /\ Len(starts) > completions[k].sid
    /\ sessionId # completions[k].sid
    /\ cache # Null
    /\ JsonParse(cache) = FinalizeResult(completions[k].sid)

====
